---- MODULE Spec2Model ----
(***************************************************************************)
(* Change detection of the ScraperPotato job scrapers.                     *)
(*                                                                         *)
(* Four programs share this model; the variable prog says which one runs:  *)
(*   "enhanced"  enhanced-scraper.js   identity set of links, file backed  *)
(*   "basic"     archive/scraper.js    identity set of links, memory only  *)
(*   "mailslurp" mailslurp-scraper.js  SHA-256 content hash, files         *)
(*   "worker"    src/worker.js         SHA-256 content hash, Workers KV    *)
(* and two harnesses apply the pure functions to drawn inputs:             *)
(*   "filter"    filterJobsByKeywords / shouldSendEmail                    *)
(*   "hash"      generateJobsHash                                          *)
(*                                                                         *)
(* Strings are sequences of characters, so that toLowerCase, includes and  *)
(* the template literal `${title} ${department}` are computed, not assumed.*)
(* A SHA-256 digest is modelled by the serialized text it is computed      *)
(* from (the digest is taken to be collision free).                        *)
(***************************************************************************)
EXTENDS Integers, Sequences, FiniteSets, TLC

\* ------------------------------------------------------------------ bounds
\* Distinct job links the careers page can show.
NumLinks == 3
\* Longest listing one scrape returns.
MaxJobs == 3
\* Cycles (startup runs, cron firings, /trigger requests) explored in one run.
MaxCycles == 3
MaxHashCycles == 2
\* Longest keyword, title and department of the filter harness.
MaxKeywordLen == 2
MaxTitleLen == 1
MaxDepartmentLen == 1
\* Longest keyword list and longest job list of the filter harness.
MaxKeywords == 2
MaxFilterJobs == 2
\* Longest job list of the hash harness.
MaxHashJobs == 2
MaxEnabledSinks == 3
MaxLogAppends == 12
MaxFileLogAppends == 3

\* The entries the worker keeps in activity-logs, and the entries the
\* MailSlurp scraper keeps in its log file.
WorkerLogLimit == 10
FileLogLimit == 100

\* ----------------------------------------------------------------- values
\* An optional value (null / undefined in the source) is a sequence of
\* length 0 or 1.
None == << >>
Some(x) == << x >>

Range(s) == { s[i] : i \in 1..Len(s) }

SeqsUpTo(S, n) == UNION { [1..k -> S] : k \in 0..n }

\* ---------------------------------------------------------------- strings
Char == {"a", "A", "b"}

\* String.prototype.toLowerCase, character by character.
LowerChar(ch) == IF ch = "A" THEN "a" ELSE IF ch = "B" THEN "b" ELSE ch

toLowerCase(s) == [ i \in 1..Len(s) |-> LowerChar(s[i]) ]

\* String.prototype.includes: k occurs in s as a contiguous substring.
includes(s, k) ==
    \E i \in 0..(Len(s) - Len(k)) : SubSeq(s, i + 1, i + Len(k)) = k

\* ------------------------------------------------------------ job records
\* The template literal `${job.title} ${job.department}`: one space between.
searchText(job) == toLowerCase(job.title \o << " " >> \o job.department)

\* keywords.some(keyword => searchText.includes(keyword.toLowerCase()))
matchesKeyword(job, keywords) ==
    \E i \in 1..Len(keywords) : includes(searchText(job), toLowerCase(keywords[i]))

\* filterJobsByKeywords(jobs, keywords): keywords is optional (None when the
\* argument is null or undefined).
filterJobsByKeywordsDropAll(jobs, keywords) ==
    IF keywords = None \/ Len(keywords[1]) = 0
    THEN << >>
    ELSE SelectSeq(jobs, LAMBDA job : matchesKeyword(job, keywords[1]))

filterJobsByKeywordsButFirst(jobs, keywords) ==
    IF keywords = None \/ Len(keywords[1]) = 0
    THEN jobs
    ELSE LET kept == SelectSeq(jobs, LAMBDA job : matchesKeyword(job, keywords[1]))
         IN  IF Len(kept) = 0 THEN kept ELSE Tail(kept)

filterJobsByKeywords(jobs, keywords) ==
    IF keywords = None \/ Len(keywords[1]) = 0
    THEN jobs
    ELSE SelectSeq(jobs, LAMBDA job : matchesKeyword(job, keywords[1]))

\* shouldSendEmail(jobs, keywords) of the MailSlurp scraper.
shouldSendEmail(jobs, keywords) ==
    IF keywords = None \/ Len(keywords[1]) = 0
    THEN [shouldSend |-> TRUE, matchingJobs |-> jobs, reason |-> "no_keywords_filter"]
    ELSE LET matchingJobs == SelectSeq(jobs, LAMBDA job : matchesKeyword(job, keywords[1]))
         IN  IF Len(matchingJobs) = 0
             THEN [shouldSend |-> FALSE, matchingJobs |-> << >>,
                   reason |-> "no_keyword_matches"]
             ELSE [shouldSend |-> TRUE, matchingJobs |-> matchingJobs,
                   reason |-> "keyword_matches_found"]

\* ------------------------------------------------------------ content hash
\* The object literal of generateJobsHash: scraped_at is left out.
canonicalStamped(job) == job

canonical(job) ==
    [title |-> job.title, link |-> job.link,
     department |-> job.department, location |-> job.location]

\* a.link.localeCompare(b.link): links are numbered in collation order.
localeCompare(a, b) == IF a < b THEN -1 ELSE IF a > b THEN 1 ELSE 0

\* Array.prototype.sort is stable: x goes behind every element that does not
\* compare greater than it.
insertSorted(x, s) ==
    LET behind == { i \in 1..Len(s) : localeCompare(s[i].link, x.link) <= 0 }
        n == IF behind = {} THEN 0
             ELSE CHOOSE i \in behind : \A j \in behind : j <= i
    IN  SubSeq(s, 1, n) \o << x >> \o SubSeq(s, n + 1, Len(s))

RECURSIVE sortByLink(_)
sortByLink(s) ==
    IF s = << >> THEN << >>
    ELSE insertSorted(s[Len(s)], sortByLink(SubSeq(s, 1, Len(s) - 1)))

\* generateJobsHash(jobs): the digest of JSON.stringify of the sorted
\* canonical records, modelled by that serialized list.
generateJobsHashUnsorted(jobs) == [ i \in 1..Len(jobs) |-> canonical(jobs[i]) ]

generateJobsHash(jobs) == sortByLink([ i \in 1..Len(jobs) |-> canonical(jobs[i]) ])

\* new Set(array): insertion ordered, a value is kept at its first occurrence.
RECURSIVE newSet(_)
newSet(array) ==
    IF array = << >> THEN << >>
    ELSE LET front == newSet(SubSeq(array, 1, Len(array) - 1))
             x == array[Len(array)]
         IN  IF x \in Range(front) THEN front ELSE Append(front, x)

\* Set.prototype.has
has(set, x) == x \in Range(set)

\* currentJobs.map(job => job.link)
linksOf(jobs) == [ i \in 1..Len(jobs) |-> jobs[i].link ]

\* ------------------------------------------------------------ the listing
Links == 1..NumLinks

\* What the careers page shows for a link: odd links are engineering titles
\* ("a"), even links are not ("b"); every posting is in department "b".
TitleOf(link) == IF link % 2 = 1 THEN << "a" >> ELSE << "b" >>

JobAt(link, now) ==
    [title |-> TitleOf(link), link |-> link, department |-> << "b" >>,
     location |-> "Bangalore, India", scraped_at |-> now]

\* The link lists a scrape can return: each posting is listed once.
LinkLists ==
    { s \in SeqsUpTo(Links, MaxJobs) : \A i, j \in 1..Len(s) : s[i] = s[j] => i = j }

\* scrapeJobs resolving at time now.
Scraped(now) == { [ i \in 1..Len(s) |-> JobAt(s[i], now) ] : s \in LinkLists }

\* ---------------------------------------------------------------- programs
IdentityPrograms == {"enhanced", "basic"}
HashPrograms == {"mailslurp", "worker"}
LocalPrograms == {"enhanced", "basic", "mailslurp"}

\* Cycle slots: slot 2 is used only when firings may overlap.
Cycles == {1, 2}

\* JOB_KEYWORDS of the scrapers that filter: one keyword, "A".
ConfiguredKeywords == Some(<< << "A" >> >>)

\* ----------------------------------------------------------- activity log
\* Array.prototype.slice(-n): the last n elements, all of them when there
\* are fewer.
sliceAll(s, n) == s

slice(s, n) == IF Len(s) <= n THEN s ELSE SubSeq(s, Len(s) - n + 1, Len(s))

\* const logs = [...existingLogs, logEntry].slice(-10)
logs(existingLogs, logEntry) == slice(existingLogs \o << logEntry >>, WorkerLogLimit)

\* logActivity: logs.push(logEntry); if (logs.length > 100) logs = logs.slice(-100)
logActivity(existingLogs, logEntry) ==
    IF Len(existingLogs \o << logEntry >>) > FileLogLimit
    THEN slice(existingLogs \o << logEntry >>, FileLogLimit)
    ELSE existingLogs \o << logEntry >>

\* A log entry: when it was made and what it reports.
Entry(now, action) == [timestamp |-> now, action |-> action]

\* ------------------------------------------------------------------ sinks
\* The notification sinks of enhanced-scraper.js; the basic scraper has the
\* email sink only. A sink is "disabled" (its enabled flag is false),
\* "unconfigured" (enabled, a credential is missing) or "ready".
Sinks == {"console", "email", "discord", "telegram", "webhook", "fileLog"}

\* The order in which sendNotifications pushes the promises.
PushOrder == << "email", "discord", "telegram", "webhook", "fileLog" >>

\* The sinks that post with node-fetch.
FetchSinks == {"discord", "telegram", "webhook"}

NoCall == [status |-> "none", payloads |-> << >>]

\* if (config.<sink>.enabled)
isEnabledAlways(cfg, s) == TRUE

isEnabled(cfg, s) == cfg[s] # "disabled"

\* One sink function run up to its first await: the console sink has printed
\* the jobs, a sink without its credentials has returned, the others wait
\* for their I/O.
startedCallTail(cfg, s, jobs) ==
    [status |-> IF s = "console" THEN "printed"
                ELSE IF cfg[s] = "ready" THEN "pending" ELSE "skipped",
     payloads |-> << IF s = "console" THEN jobs ELSE Tail(jobs) >>]

startedCall(cfg, s, jobs) ==
    [status |-> IF s = "console" THEN "printed"
                ELSE IF cfg[s] = "ready" THEN "pending" ELSE "skipped",
     payloads |-> << jobs >>]

\* notifications, the array handed to Promise.allSettled.
pushed(cfg) == SelectSeq(PushOrder, LAMBDA s : isEnabled(cfg, s))

\* The synchronous part of sendNotifications(newJobs): every enabled sink is
\* called once with newJobs.
sendNotificationsFirstOnly(cfg, jobs) ==
    [ s \in Sinks |->
        IF isEnabled(cfg, s) /\ (s = "console" \/ (pushed(cfg) # << >> /\ s = pushed(cfg)[1]))
        THEN startedCall(cfg, s, jobs) ELSE NoCall ]

sendNotifications(cfg, jobs) ==
    [ s \in Sinks |-> IF isEnabled(cfg, s) THEN startedCall(cfg, s, jobs) ELSE NoCall ]

\* How a call that waits for I/O can settle: "delivered"; "refused" (fetch
\* resolved with an error status, which the sink does not look at);
\* "failed" (the error was caught and logged); "rejected" (the import of
\* node-fetch, outside the try, failed).
Outcomes(s) ==
    IF s \in FetchSinks THEN {"delivered", "refused", "failed", "rejected"}
    ELSE {"delivered", "failed"}

\* What Promise.allSettled(notifications) resolves to, one entry per promise:
\* a sink function returns normally after a caught error, after an error
\* status it does not look at, and when its credentials are missing.
settledResults(cs, ns) ==
    [ i \in 1..Len(ns) |->
        IF cs[ns[i]].status = "rejected" THEN "rejected" ELSE "fulfilled" ]

\* await Promise.allSettled(notifications): every promise has settled.
allSettledAtOnce(cs, ns) == TRUE

allSettledOrOneRejected(cs, ns) ==
    \/ \A i \in 1..Len(ns) : cs[ns[i]].status \notin {"pending", "hung"}
    \/ \E i \in 1..Len(ns) : cs[ns[i]].status = "rejected"

allSettled(cs, ns) ==
    \A i \in 1..Len(ns) : cs[ns[i]].status \notin {"pending", "hung"}

VARIABLES
    prog,          \* the program that runs
    overlapping,   \* whether a firing may start while a cycle is in flight
    proc,          \* "down" | "startup" | "running" | "crashed"
    env,           \* the environment the process was started with
    sinkConfig,    \* per sink: "disabled" | "unconfigured" | "ready"
    budget,        \* cycles that may still start
    previousJobs,  \* let previousJobs = new Set()  (identity-set programs)
    prevFile,      \* ./previous-jobs.json: None, or the saved array
    jobsHash,      \* jobs-hash.txt / KV key jobs-hash: None, or the digest
    latestJobs,    \* latest-jobs.json / KV key latest-jobs: None, or the list
    emailService,  \* mailslurp: whether emailService is non-null
    pc,            \* per cycle: where it is suspended
    currentJobs,   \* per cycle: const currentJobs, None until scrapeJobs resolves
    previousHash,  \* per cycle: const previousHash
    newJobs,       \* per cycle: the list handed to the notification step
    result,        \* per cycle: how it returned, "none" until it does
    mail,          \* per cycle: "none" | "sending" | "sent" | "failed"
    failed,        \* per cycle: the operations that failed or threw
    calls,         \* per cycle and sink: the status of its call and what it was handed
    notifications, \* per cycle: the sinks whose promises sendNotifications collected
    interrupted,   \* history: where cycle 1 was when SIGINT arrived, "none" otherwise
    origin,        \* per cycle: what started it ("start", "cron", a requester of /trigger)
    activityLogs,  \* the activity-logs KV value (the log file in the log specification)
    appended,      \* history: the entries written to the log, in the order of the writes
    wrote,         \* history, per cycle: the parts of the seen state it changed
    lastScrape,    \* history: the list the latest cycle scraped, None if it failed
    prior,         \* history: the state the cycle before left is the one in place
    repeat,        \* history, per cycle: it scraped the records of the cycle before
    notifiedOnce,  \* history: links handed to a notification step
    notifiedTwice, \* history: links handed to it in two cycles
    observed,      \* history: links of the successful non-empty scrapes
    missed,        \* history: observed links a later such scrape lacked
    lossy          \* history: seen state or a cycle was lost at a restart

vars == << prog, overlapping, proc, env, sinkConfig, budget, previousJobs,
           prevFile, jobsHash, latestJobs, emailService, pc, currentJobs,
           previousHash, newJobs, result, mail, failed, calls, notifications,
           interrupted, origin, activityLogs, appended, wrote, lastScrape, prior, repeat, notifiedOnce,
           notifiedTwice, observed, missed, lossy >>

processVars == << prog, overlapping, env, sinkConfig >>
sinkVars == << calls, notifications >>
logVars == << activityLogs, appended >>
storeVars == << prevFile, jobsHash, latestJobs >>
cycleVars == << currentJobs, previousHash, newJobs, result, mail, failed, wrote, repeat >>
linkHistory == << notifiedOnce, notifiedTwice, observed, missed >>

\* The clock reading new Date() returns: the cycles started so far.
CycleBudget(p) == IF p \in HashPrograms THEN MaxHashCycles ELSE MaxCycles

Now == CycleBudget(prog) - budget

\* ------------------------------------------------------------------- Init
\* The environments a program is started with. emailEnabled is
\* EMAIL_ENABLED !== 'false', receiver is EMAIL_RECEIVER being set, apiKey is
\* MAILSLURP_API_KEY being set; the identity-set programs read none of them.
Envs(p) ==
    IF p \in HashPrograms
    THEN [keywords : {ConfiguredKeywords}, emailEnabled : BOOLEAN,
          receiver : BOOLEAN, apiKey : BOOLEAN]
    ELSE [keywords : {None}, emailEnabled : {FALSE}, receiver : {FALSE},
          apiKey : {FALSE}]

PerCycle(v) == [ c \in Cycles |-> v ]

\* Nothing stored, no cycle in flight, no history.
InitStores ==
    /\ previousJobs = << >>
    /\ prevFile = None
    /\ jobsHash = None
    /\ latestJobs = None
    /\ emailService = FALSE
    /\ pc = PerCycle("idle")
    /\ previousHash = PerCycle(None)
    /\ newJobs = PerCycle(<< >>)
    /\ result = PerCycle("none")
    /\ mail = PerCycle("none")
    /\ failed = PerCycle({})
    /\ calls = PerCycle([ s \in Sinks |-> NoCall ])
    /\ notifications = PerCycle(<< >>)
    /\ interrupted = "none"
    /\ origin = PerCycle("none")
    /\ activityLogs = << >>
    /\ appended = << >>
    /\ wrote = PerCycle({})
    /\ lastScrape = None
    /\ prior = FALSE
    /\ repeat = PerCycle(FALSE)
    /\ notifiedOnce = {}
    /\ notifiedTwice = {}
    /\ observed = {}
    /\ missed = {}
    /\ lossy = FALSE

\* Firings do not overlap: a cycle is over before the next one starts.
InitRest ==
    /\ overlapping = FALSE
    /\ InitStores

\* The sink configuration explored with the change detection: the enhanced
\* scraper prints to the console and posts to Discord, the basic scraper
\* mails; the content-hash programs have none of these sinks.
SinkConfigs(p) ==
    { [ s \in Sinks |->
          IF \/ p = "enhanced" /\ s \in {"console", "discord"}
             \/ p = "basic" /\ s = "email"
          THEN "ready" ELSE "disabled" ] }

InitProgram(p) ==
    /\ prog = p
    /\ sinkConfig \in SinkConfigs(p)
    /\ proc = (IF p \in LocalPrograms THEN "down" ELSE "running")
    /\ env \in Envs(p)
    /\ budget = CycleBudget(p)
    /\ currentJobs = PerCycle(None)
    /\ InitRest

\* ------------------------------------------------- process start and stop
\* loadPreviousJobs: the saved array as a Set; an absent or unreadable file
\* leaves the empty Set of the declaration.
loadPreviousJobs ==
    IF prevFile = None THEN { << >> } ELSE { newSet(prevFile[1]), << >> }

\* savePreviousJobs: the file holds [...previousJobs], or stays as it was
\* when writeFile fails (the error is logged and swallowed).
savePreviousJobs == { Some(previousJobs), prevFile }

\* History: the cycle that ran last returned with its seen state in place.
Persisted ==
    /\ "save_hash" \notin failed[1]
    /\ IF prog = "worker"
       THEN /\ result[1] \in {"unchanged", "no_match", "processed", "error"}
            /\ failed[1] \cap {"scrape", "load_hash", "constructor"} = {}
       ELSE result[1] \in {"unchanged", "changed", "no_match", "processed"}

\* The records of a list as they are compared: without scraped_at.
records(jobs) == [ i \in 1..Len(jobs) |-> canonical(jobs[i]) ]

\* History: scrapeJobs of cycle c resolved with jobs, or rejected (None).
ScrapeSeen(c, jobs) ==
    /\ lastScrape' = (IF jobs = None THEN None ELSE Some(records(jobs[1])))
    /\ repeat' = [repeat EXCEPT ![c] = /\ prior
                                       /\ jobs # None
                                       /\ lastScrape # None
                                       /\ Len(lastScrape[1]) > 0
                                       /\ lastScrape = Some(records(jobs[1]))]

\* History: cycle c has written the part `what` of the seen state.
Wrote(c, what) == wrote' = [wrote EXCEPT ![c] = @ \cup what]

\* A cycle starts in slot c: its locals are fresh.
Fresh(c) ==
    /\ pc' = [pc EXCEPT ![c] = "scraping"]
    /\ currentJobs' = [currentJobs EXCEPT ![c] = None]
    /\ previousHash' = [previousHash EXCEPT ![c] = None]
    /\ newJobs' = [newJobs EXCEPT ![c] = << >>]
    /\ result' = [result EXCEPT ![c] = "none"]
    /\ mail' = [mail EXCEPT ![c] = "none"]
    /\ failed' = [failed EXCEPT ![c] = {}]
    /\ calls' = [calls EXCEPT ![c] = [ s \in Sinks |-> NoCall ]]
    /\ notifications' = [notifications EXCEPT ![c] = << >>]
    /\ wrote' = [wrote EXCEPT ![c] = {}]
    /\ repeat' = [repeat EXCEPT ![c] = FALSE]

\* new EmailService() at the top of mailslurp-scraper.js throws when the
\* receiver is configured and MAILSLURP_API_KEY is not.
ModuleLoads ==
    ~(prog = "mailslurp" /\ env.emailEnabled /\ env.receiver /\ ~env.apiKey)

\* start() up to its first await of a cycle. previousJobs still holds the
\* memory of the process that went down, so the history can tell a loss.
\* nodemailer.createTransporter(...) at the top of enhanced-scraper.js, run
\* when the email sink is enabled with EMAIL_USER and EMAIL_PASS: the call
\* returns a transporter (TRUE) or throws because nodemailer has no function
\* of that name (FALSE). The basic scraper calls createTransport.
createTransporter ==
    IF prog = "enhanced" /\ sinkConfig["email"] = "ready" THEN {TRUE, FALSE} ELSE {TRUE}

Start ==
    /\ prog \in LocalPrograms
    /\ proc = "down"
    /\ budget > 0
    /\ interrupted' = "none"
    /\ origin' = [origin EXCEPT ![1] = "start"]
    /\ \E created \in createTransporter :
       IF ModuleLoads /\ created
       THEN /\ proc' = "startup"
            /\ budget' = budget - 1
            /\ \E loaded \in (IF prog = "enhanced" THEN loadPreviousJobs ELSE { << >> }) :
                  /\ previousJobs' = loaded
                  /\ prior' = (prior /\ (prog = "mailslurp"
                                         \/ Range(loaded) = Range(previousJobs)))
                  /\ lossy' = (lossy \/ Range(loaded) # Range(previousJobs))
            /\ Fresh(1)
            \* emailService.initialize() may fail: the scraper goes on without.
            /\ emailService' \in (IF prog = "mailslurp" /\ env.emailEnabled /\ env.receiver
                                  THEN {TRUE, FALSE} ELSE {FALSE})
       ELSE /\ proc' = "crashed"
            /\ UNCHANGED << budget, previousJobs, pc, cycleVars, sinkVars, prior,
                            lossy, emailService >>
    /\ UNCHANGED << processVars, logVars, storeVars, lastScrape, linkHistory >>

\* Ctrl-C. enhanced-scraper.js saves previousJobs and exits; the other local
\* programs exit with what is on disk. Cycles in flight are abandoned and the
\* memory of the process is gone (previousJobs is kept for the history only).
Sigint ==
    /\ prog \in LocalPrograms
    /\ proc \in {"startup", "running"}
    /\ proc' = "down"
    /\ pc' = PerCycle("idle")
    /\ prevFile' \in (IF prog = "enhanced" THEN savePreviousJobs ELSE { prevFile })
    /\ lossy' = (lossy \/ \E c \in Cycles : pc[c] = "notifying")
    /\ prior' = (pc[1] \in {"idle", "saving"} /\ Persisted)
    /\ currentJobs' = PerCycle(None)
    /\ previousHash' = PerCycle(None)
    /\ newJobs' = PerCycle(<< >>)
    /\ result' = PerCycle("none")
    /\ mail' = PerCycle("none")
    /\ failed' = PerCycle({})
    /\ calls' = PerCycle([ s \in Sinks |-> NoCall ])
    /\ notifications' = PerCycle(<< >>)
    /\ interrupted' = pc[1]
    /\ origin' = PerCycle("none")
    /\ wrote' = PerCycle({})
    /\ repeat' = PerCycle(FALSE)
    /\ emailService' = FALSE
    /\ UNCHANGED << processVars, logVars, budget, previousJobs, jobsHash, latestJobs,
                    lastScrape, linkHistory >>

\* A cycle is started in slot c by `who`.
Fired(c, who) ==
    /\ proc = "running"
    /\ budget > 0
    /\ pc[c] = "idle"
    /\ IF overlapping THEN TRUE ELSE c = 1 /\ \A d \in Cycles : pc[d] = "idle"
    /\ budget' = budget - 1
    /\ Fresh(c)
    /\ origin' = [origin EXCEPT ![c] = who]
    /\ prior' = Persisted
    /\ UNCHANGED << processVars, interrupted, logVars, proc, previousJobs, storeVars, emailService,
                    lastScrape, linkHistory, lossy >>

\* A cron firing or, in the worker, a scheduled event.
Trigger(c) == Fired(c, "cron")

\* Who can send a request to the worker's URL.
Requesters == {"owner", "stranger"}

\* handleRequest: what the /trigger branch asks of the request before it
\* calls checkForJobs.
mayTrigger(who) == TRUE

\* A GET /trigger from `who` reaches the worker.
Requested(c, who) ==
    /\ prog = "worker"
    /\ mayTrigger(who)
    /\ Fired(c, who)

\* The caller's continuation once checkForNewJobs / checkForJobs has returned:
\* enhanced-scraper.js awaits savePreviousJobs, the others are done; start()
\* then schedules the cron job.
ReturnedCrashed(c, v) ==
    /\ result' = [result EXCEPT ![c] = v]
    /\ pc' = [pc EXCEPT ![c] = "idle"]
    /\ proc' = "crashed"

Returned(c, v) ==
    /\ result' = [result EXCEPT ![c] = v]
    /\ IF prog = "enhanced"
       THEN pc' = [pc EXCEPT ![c] = "saving"] /\ proc' = proc
       ELSE pc' = [pc EXCEPT ![c] = "idle"] /\ proc' = "running"

\* ------------------------------------------- identity-set cycle (cycle c)
\* currentJobs.length === 0
isEmptyScrapeNever(jobs) == FALSE

isEmptyScrape(jobs) == Len(jobs) = 0

\* currentJobs.filter(job => !previousJobs.has(job.link))
findNewJobsAll(jobs) == jobs

findNewJobs(jobs) == SelectSeq(jobs, LAMBDA job : ~has(previousJobs, job.link))

\* previousJobs = new Set(currentJobs.map(job => job.link))
updatedPreviousJobsUnion(jobs) == newSet(previousJobs \o linksOf(jobs))

updatedPreviousJobsStale(jobs) == previousJobs

updatedPreviousJobs(jobs) == newSet(linksOf(jobs))

\* History of the links scraped and of those handed to the notification step.
Recorded(jobs, handed) ==
    LET links == Range(linksOf(jobs))
        told == Range(linksOf(handed))
    IN  /\ observed' = observed \cup links
        /\ missed' = (IF jobs = << >> THEN missed ELSE missed \cup (observed \ links))
        /\ notifiedOnce' = notifiedOnce \cup told
        /\ notifiedTwice' = notifiedTwice \cup (notifiedOnce \cap told)

\* scrapeJobs has settled and checkForNewJobs runs to its next await: the
\* empty guard (enhanced only), the filter, and sendNotifications up to
\* Promise.allSettled, or the end of the function.
ScrapedIdentityFrom(c, listings) ==
    /\ prog \in IdentityPrograms
    /\ pc[c] = "scraping"
    /\ \/ /\ failed' = [failed EXCEPT ![c] = {"scrape"}]
          /\ Returned(c, "scrape_failed")
          /\ ScrapeSeen(c, None)
          /\ UNCHANGED << currentJobs, newJobs, sinkVars, linkHistory >>
       \/ \E jobs \in listings :
             /\ currentJobs' = [currentJobs EXCEPT ![c] = Some(jobs)]
             /\ ScrapeSeen(c, Some(jobs))
             /\ UNCHANGED failed
             /\ IF prog = "enhanced" /\ isEmptyScrape(jobs)
                THEN /\ Returned(c, "empty")
                     /\ UNCHANGED << newJobs, sinkVars, linkHistory >>
                ELSE /\ Recorded(jobs, findNewJobs(jobs))
                     /\ IF Len(findNewJobs(jobs)) > 0
                        THEN /\ newJobs' = [newJobs EXCEPT ![c] = findNewJobs(jobs)]
                             /\ calls' = [calls EXCEPT ![c] =
                                             sendNotifications(sinkConfig, findNewJobs(jobs))]
                             /\ notifications' = [notifications EXCEPT ![c] =
                                                     pushed(sinkConfig)]
                             /\ pc' = [pc EXCEPT ![c] = "notifying"]
                             /\ UNCHANGED << proc, result >>
                        ELSE /\ Returned(c, "unchanged")
                             /\ UNCHANGED << newJobs, sinkVars >>
    /\ UNCHANGED << processVars, interrupted, origin, logVars, budget, previousJobs, storeVars, emailService,
                    previousHash, mail, wrote, prior, lossy >>

ScrapedIdentity(c) == ScrapedIdentityFrom(c, Scraped(Now))

\* One sink call of cycle c settles. An error inside the sink's try block is
\* caught and logged there; a failed import of node-fetch rejects the promise.
SinkSettled(c, s) ==
    /\ prog \in IdentityPrograms
    /\ pc[c] = "notifying"
    /\ calls[c][s].status = "pending"
    /\ \E outcome \in Outcomes(s) :
          calls' = [calls EXCEPT ![c][s].status = outcome]
    /\ UNCHANGED << processVars, notifications, interrupted, origin, logVars, proc, budget, previousJobs,
                    storeVars, emailService, pc, cycleVars, lastScrape, prior,
                    linkHistory, lossy >>

\* fetch is called without a timeout or an abort signal: the request of a
\* sink may stay open for good.
SinkHangs(c, s) ==
    /\ prog \in IdentityPrograms
    /\ pc[c] = "notifying"
    /\ s \in FetchSinks
    /\ calls[c][s].status = "pending"
    /\ calls' = [calls EXCEPT ![c][s].status = "hung"]
    /\ UNCHANGED << processVars, notifications, interrupted, origin, logVars, proc, budget, previousJobs,
                    storeVars, emailService, pc, cycleVars, lastScrape, prior,
                    linkHistory, lossy >>

\* Promise.allSettled has resolved (in basic-scraper.js, the one awaited
\* sendEmailNotification): previousJobs is replaced.
NotifiedIdentity(c) ==
    /\ prog \in IdentityPrograms
    /\ pc[c] = "notifying"
    /\ allSettled(calls[c], notifications[c])
    /\ previousJobs' = updatedPreviousJobs(currentJobs[c][1])
    /\ Wrote(c, {"previousJobs"})
    /\ Returned(c, "changed")
    /\ UNCHANGED << processVars, sinkVars, interrupted, origin, logVars, budget, storeVars, emailService, currentJobs,
                    previousHash, newJobs, mail, failed, lastScrape, prior,
                    repeat, linkHistory, lossy >>

\* await savePreviousJobs() of the cron callback and of start().
SavedIdentity(c) ==
    /\ prog = "enhanced"
    /\ pc[c] = "saving"
    /\ prevFile' \in savePreviousJobs
    /\ pc' = [pc EXCEPT ![c] = "idle"]
    /\ proc' = "running"
    /\ UNCHANGED << processVars, sinkVars, interrupted, origin, logVars, budget, previousJobs, jobsHash, latestJobs,
                    emailService, cycleVars, lastScrape, prior, linkHistory, lossy >>

\* ------------------------------------------- content-hash cycle (cycle c)
\* const jobsChanged = currentHash !== previousHash
jobsChangedAlways(currentHash, stored) == TRUE

jobsChanged(currentHash, stored) == Some(currentHash) # stored

\* The success field of the object the worker's checkForJobs resolves to.
success(v) ==
    IF v \in {"unchanged", "no_match", "processed"} THEN TRUE
    ELSE IF v \in {"empty", "error"} THEN FALSE
    ELSE "undefined"

ThrownUncaught(c, what) ==
    /\ failed' = [failed EXCEPT ![c] = @ \cup {what}]
    /\ pc' = [pc EXCEPT ![c] = "idle"]
    /\ result' = [result EXCEPT ![c] = "rejected"]
    /\ proc' = proc

\* The worker's catch block: the error is to be logged, then
\* { success: false } is returned.
Thrown(c, what) ==
    /\ failed' = [failed EXCEPT ![c] = @ \cup {what}]
    /\ pc' = [pc EXCEPT ![c] = "logging_error"]
    /\ UNCHANGED << proc, result >>

\* scrapeJobs has settled: the catch block, the empty guard, or on to the
\* read of the stored hash.
ScrapedHashFrom(c, listings) ==
    /\ prog \in HashPrograms
    /\ pc[c] = "scraping"
    /\ \/ /\ UNCHANGED currentJobs
          /\ ScrapeSeen(c, None)
          /\ IF prog = "worker"
             THEN Thrown(c, "scrape")
             ELSE /\ failed' = [failed EXCEPT ![c] = {"scrape"}]
                  /\ Returned(c, "scrape_failed")
       \/ \E jobs \in listings :
             /\ currentJobs' = [currentJobs EXCEPT ![c] = Some(jobs)]
             /\ ScrapeSeen(c, Some(jobs))
             /\ UNCHANGED failed
             /\ IF isEmptyScrape(jobs)
                THEN Returned(c, "empty")
                ELSE /\ pc' = [pc EXCEPT ![c] = "loading_hash"]
                     /\ UNCHANGED << proc, result >>
    /\ UNCHANGED << processVars, sinkVars, interrupted, origin, logVars, budget, previousJobs, storeVars, emailService,
                    previousHash, newJobs, mail, wrote, prior, linkHistory, lossy >>

ScrapedHash(c) == ScrapedHashFrom(c, Scraped(Now))

\* After the comparison found a change: the keyword filter, and the email
\* service of the program. The worker constructs WorkerEmailService here,
\* which throws without MAILSLURP_API_KEY.
Changed(c) ==
    LET matchingJobs == IF prog = "worker"
                        THEN filterJobsByKeywords(currentJobs[c][1], env.keywords)
                        ELSE shouldSendEmail(currentJobs[c][1], env.keywords).matchingJobs
        configured == IF prog = "worker"
                      THEN env.emailEnabled /\ env.receiver
                      ELSE emailService
    IN  IF Len(matchingJobs) = 0
        THEN /\ pc' = [pc EXCEPT ![c] = "saving_hash"]
             /\ UNCHANGED << newJobs, mail >>
        ELSE /\ newJobs' = [newJobs EXCEPT ![c] = matchingJobs]
             /\ IF configured
                THEN IF prog = "worker" /\ ~env.apiKey
                     THEN /\ pc' = [pc EXCEPT ![c] = "logging_error"]
                          /\ UNCHANGED mail
                     ELSE /\ pc' = [pc EXCEPT ![c] = "emailing"]
                          /\ mail' = [mail EXCEPT ![c] = "sending"]
                ELSE /\ pc' = [pc EXCEPT ![c] = "saving_hash"]
                     /\ UNCHANGED mail

\* What Changed(c) throws.
ChangedThrows(c) ==
    IF /\ prog = "worker"
       /\ Len(filterJobsByKeywords(currentJobs[c][1], env.keywords)) > 0
       /\ env.emailEnabled /\ env.receiver /\ ~env.apiKey
    THEN {"constructor"} ELSE {}

\* loadPreviousHash (a failed read gives null) or JOB_STORAGE.get('jobs-hash')
\* (a failed read throws) has settled; then the comparison.
LoadedHash(c) ==
    /\ prog \in HashPrograms
    /\ pc[c] = "loading_hash"
    /\ \/ /\ previousHash' = [previousHash EXCEPT ![c] = jobsHash]
          /\ IF jobsChanged(generateJobsHash(currentJobs[c][1]), jobsHash)
             THEN /\ Changed(c)
                  /\ failed' = [failed EXCEPT ![c] = @ \cup ChangedThrows(c)]
                  /\ UNCHANGED << proc, result >>
             ELSE /\ Returned(c, "unchanged")
                  /\ UNCHANGED << newJobs, mail, failed >>
       \/ /\ prog = "worker"
          /\ Thrown(c, "load_hash")
          /\ UNCHANGED << previousHash, newJobs, mail >>
       \/ /\ prog = "mailslurp"
          /\ jobsHash # None
          /\ previousHash' = [previousHash EXCEPT ![c] = None]
          /\ Changed(c)
          /\ failed' = [failed EXCEPT ![c] = @ \cup {"load_hash"}]
          /\ UNCHANGED << proc, result >>
    /\ UNCHANGED << processVars, sinkVars, interrupted, origin, logVars, budget, previousJobs, storeVars, emailService,
                    currentJobs, wrote, lastScrape, prior, repeat, linkHistory,
                    lossy >>

\* sendJobAlert has settled: it catches its own errors and reports them.
Emailed(c) ==
    /\ prog \in HashPrograms
    /\ pc[c] = "emailing"
    /\ \E outcome \in {"sent", "failed"} : mail' = [mail EXCEPT ![c] = outcome]
    /\ pc' = [pc EXCEPT ![c] = "saving_hash"]
    /\ UNCHANGED << processVars, sinkVars, interrupted, origin, logVars, proc, budget, previousJobs, storeVars,
                    emailService, currentJobs, previousHash, newJobs, result,
                    failed, wrote, lastScrape, prior, repeat, linkHistory, lossy >>

\* saveHash (a failed write is logged and swallowed) or
\* JOB_STORAGE.put('jobs-hash', currentHash) (a failed write throws).
SavedHash(c) ==
    /\ prog \in HashPrograms
    /\ pc[c] = "saving_hash"
    /\ \/ /\ jobsHash' = Some(generateJobsHash(currentJobs[c][1]))
          /\ Wrote(c, {"jobsHash"})
          /\ pc' = [pc EXCEPT ![c] = "saving_jobs"]
          /\ UNCHANGED << failed, proc, result >>
       \/ /\ UNCHANGED << jobsHash, wrote >>
          /\ IF prog = "worker"
             THEN Thrown(c, "save_hash")
             ELSE /\ failed' = [failed EXCEPT ![c] = @ \cup {"save_hash"}]
                  /\ pc' = [pc EXCEPT ![c] = "saving_jobs"]
                  /\ UNCHANGED << proc, result >>
    /\ UNCHANGED << processVars, sinkVars, interrupted, origin, logVars, budget, previousJobs, prevFile, latestJobs,
                    emailService, currentJobs, previousHash, newJobs, mail,
                    lastScrape, prior, repeat, linkHistory, lossy >>

\* The cycle's end after the two writes: the no-match branch returns, the
\* worker's match branch goes on to the activity log.
AfterSaves(c) ==
    IF Len(newJobs[c]) = 0
    THEN Returned(c, "no_match")
    ELSE IF prog = "worker"
         THEN pc' = [pc EXCEPT ![c] = "logging"] /\ UNCHANGED << proc, result >>
         ELSE Returned(c, "processed")

\* saveJobs or JOB_STORAGE.put('latest-jobs', JSON.stringify(currentJobs)).
SavedJobs(c) ==
    /\ prog \in HashPrograms
    /\ pc[c] = "saving_jobs"
    /\ \/ /\ latestJobs' = Some(currentJobs[c][1])
          /\ Wrote(c, {"latestJobs"})
          /\ AfterSaves(c)
          /\ UNCHANGED failed
       \/ /\ UNCHANGED << latestJobs, wrote >>
          /\ IF prog = "worker"
             THEN Thrown(c, "save_jobs")
             ELSE /\ failed' = [failed EXCEPT ![c] = @ \cup {"save_jobs"}]
                  /\ AfterSaves(c)
    /\ UNCHANGED << processVars, sinkVars, interrupted, origin, logVars, budget, previousJobs, prevFile, jobsHash,
                    emailService, currentJobs, previousHash, newJobs, mail,
                    lastScrape, prior, repeat, linkHistory, lossy >>

\* The worker's activity log of a processed cycle: a get and a put of
\* activity-logs, either of which may throw into the catch block.
Logged(c) ==
    /\ prog = "worker"
    /\ pc[c] = "logging"
    /\ \/ /\ activityLogs' = logs(activityLogs, Entry(Now, "jobs_found"))
          /\ appended' = Append(appended, Entry(Now, "jobs_found"))
          /\ Returned(c, "processed")
          /\ UNCHANGED failed
       \/ /\ Thrown(c, "log")
          /\ UNCHANGED logVars
    /\ UNCHANGED << processVars, sinkVars, interrupted, origin, budget, previousJobs, storeVars, emailService,
                    currentJobs, previousHash, newJobs, mail, wrote, lastScrape,
                    prior, repeat, linkHistory, lossy >>

\* The worker's catch block: the error is logged inside its own try, and
\* { success: false } is returned.
LoggedError(c) ==
    /\ prog = "worker"
    /\ pc[c] = "logging_error"
    /\ \/ /\ activityLogs' = logs(activityLogs, Entry(Now, "error"))
          /\ appended' = Append(appended, Entry(Now, "error"))
       \/ UNCHANGED logVars
    /\ Returned(c, "error")
    /\ UNCHANGED << processVars, sinkVars, interrupted, origin, budget, previousJobs, storeVars, emailService,
                    currentJobs, previousHash, newJobs, mail, failed, wrote,
                    repeat, lastScrape,
                    prior, linkHistory, lossy >>

\* ------------------------------------------- the keyword filters alone
\* The filters applied to arbitrary short records and keyword lists: the
\* records are in currentJobs[1], the keywords in env.keywords, and what the
\* filter returned is in newJobs[1].
FilterRecords ==
    { [ i \in 1..Len(s) |->
          [title |-> s[i][1], link |-> i, department |-> s[i][2],
           location |-> "Bangalore, India", scraped_at |-> 0] ] :
      s \in SeqsUpTo(SeqsUpTo(Char, MaxTitleLen) \X SeqsUpTo(Char, MaxDepartmentLen),
                     MaxFilterJobs) }

FilterKeywords ==
    { None } \cup { Some(k) : k \in SeqsUpTo(SeqsUpTo(Char, MaxKeywordLen), MaxKeywords) }

InitFilter ==
    /\ prog = "filter"
    /\ sinkConfig \in SinkConfigs("filter")
    /\ proc = "running"
    /\ env \in [keywords : FilterKeywords, emailEnabled : {FALSE},
                 receiver : {FALSE}, apiKey : {FALSE}]
    /\ budget = 0
    /\ currentJobs \in { [ c \in Cycles |-> IF c = 1 THEN Some(jobs) ELSE None ] :
                          jobs \in FilterRecords }
    /\ InitRest

\* filterJobsByKeywords of worker.js and of WorkerEmailService.
Filtered ==
    /\ prog = "filter"
    /\ result[1] = "none"
    /\ newJobs' = [newJobs EXCEPT ![1] = filterJobsByKeywords(currentJobs[1][1], env.keywords)]
    /\ result' = [result EXCEPT ![1] = "filterJobsByKeywords"]
    /\ UNCHANGED << processVars, sinkVars, interrupted, origin, logVars, proc, budget, previousJobs, storeVars, emailService,
                    pc, currentJobs, previousHash, mail, failed, wrote, lastScrape,
                    prior, repeat, linkHistory, lossy >>

\* shouldSendEmail of the MailSlurp scraper: its reason is kept in result[1].
ShouldSendEmailCalled ==
    /\ prog = "filter"
    /\ result[1] = "none"
    /\ LET r == shouldSendEmail(currentJobs[1][1], env.keywords)
       IN  /\ newJobs' = [newJobs EXCEPT ![1] = r.matchingJobs]
           /\ result' = [result EXCEPT ![1] = r.reason]
    /\ UNCHANGED << processVars, sinkVars, interrupted, origin, logVars, proc, budget, previousJobs, storeVars, emailService,
                    pc, currentJobs, previousHash, mail, failed, wrote, lastScrape,
                    prior, repeat, linkHistory, lossy >>

\* generateJobEmailHTML(jobs, keywords) of WorkerEmailService: the job cards
\* of the page, one for each record its own filterJobsByKeywords keeps; null
\* (None) when it keeps none.
generateJobEmailHTML(jobs, keywords) ==
    LET matchingJobs == filterJobsByKeywords(jobs, keywords)
    IN  IF Len(matchingJobs) = 0 THEN None ELSE Some(matchingJobs)

\* sendJobAlert(matchingJobs, keywords) as checkForJobs calls it, with the
\* detector's non-empty matchingJobs and the same keywords. The cards of the
\* page it builds are kept in newJobs[2] and its outcome in result[2];
\* keywords.join of a null list throws into its catch block.
JobAlertBuilt ==
    /\ prog = "filter"
    /\ result[1] = "filterJobsByKeywords"
    /\ result[2] = "none"
    /\ Len(newJobs[1]) > 0
    /\ IF env.keywords = None
       THEN /\ result' = [result EXCEPT ![2] = "error"]
            /\ UNCHANGED newJobs
       ELSE LET emailHTML == generateJobEmailHTML(newJobs[1], env.keywords)
            IN  IF emailHTML = None
                THEN /\ result' = [result EXCEPT ![2] = "no_matching_jobs"]
                     /\ UNCHANGED newJobs
                ELSE /\ result' = [result EXCEPT ![2] = "built"]
                     /\ newJobs' = [newJobs EXCEPT ![2] = emailHTML[1]]
    /\ UNCHANGED << processVars, sinkVars, interrupted, origin, logVars, proc, budget, previousJobs, storeVars, emailService,
                    pc, currentJobs, previousHash, mail, failed, wrote, lastScrape,
                    prior, repeat, linkHistory, lossy >>

NextFilter == Filtered \/ ShouldSendEmailCalled \/ JobAlertBuilt

SpecFilter == InitFilter /\ [][NextFilter]_vars

\* ---------------------------------------------- generateJobsHash alone
\* Two scrapes of one listing in different orders: the digest of the first
\* is stored in jobsHash, the second (currentJobs[2]) is compared with it as
\* checkForJobs does. The page may show two postings under one link.
HashRecords ==
    { [ i \in 1..Len(s) |->
          [title |-> << s[i][1] >>, link |-> s[i][2], department |-> << "b" >>,
           location |-> "Bangalore, India", scraped_at |-> 0] ] :
      s \in SeqsUpTo({"a", "b"} \X Links, MaxHashJobs) }

Reorderings(s) ==
    { [ i \in 1..Len(s) |-> s[f[i]] ] :
      f \in { g \in [1..Len(s) -> 1..Len(s)] : \A i, j \in 1..Len(s) : g[i] = g[j] => i = j } }

InitHash ==
    /\ prog = "hash"
    /\ sinkConfig \in SinkConfigs("hash")
    /\ proc = "running"
    /\ env \in Envs("basic")
    /\ budget = 0
    /\ currentJobs \in { [ c \in Cycles |-> IF c = 1 THEN Some(jobs) ELSE None ] :
                          jobs \in HashRecords }
    /\ InitRest

\* The first scrape's digest is stored.
HashStored ==
    /\ prog = "hash"
    /\ jobsHash = None
    /\ jobsHash' = Some(generateJobsHash(currentJobs[1][1]))
    /\ UNCHANGED << processVars, sinkVars, interrupted, origin, logVars, proc, budget, previousJobs, prevFile, latestJobs,
                    emailService, pc, cycleVars, lastScrape, prior, linkHistory, lossy >>

\* The second scrape lists the same records in some order; its digest is
\* compared with the stored one.
HashCompared ==
    /\ prog = "hash"
    /\ jobsHash # None
    /\ result[2] = "none"
    /\ \E jobs \in Reorderings(currentJobs[1][1]) :
          /\ currentJobs' = [currentJobs EXCEPT ![2] = Some(jobs)]
          /\ previousHash' = [previousHash EXCEPT ![2] = jobsHash]
          /\ result' = [result EXCEPT ![2] =
                           IF jobsChanged(generateJobsHash(jobs), jobsHash)
                           THEN "changed" ELSE "unchanged"]
    /\ UNCHANGED << processVars, sinkVars, interrupted, origin, logVars, proc, budget, previousJobs, storeVars, emailService,
                    pc, newJobs, mail, failed, wrote, lastScrape, prior, repeat,
                    linkHistory, lossy >>

\* The second scrape lists the same records in the same order at a later
\* time: every record carries the new scraped_at.
HashRescraped ==
    /\ prog = "hash"
    /\ jobsHash # None
    /\ result[2] = "none"
    /\ \E later \in 1..MaxHashCycles :
          LET jobs == [ i \in 1..Len(currentJobs[1][1]) |->
                          [currentJobs[1][1][i] EXCEPT !.scraped_at = later] ]
          IN  /\ currentJobs' = [currentJobs EXCEPT ![2] = Some(jobs)]
              /\ previousHash' = [previousHash EXCEPT ![2] = jobsHash]
              /\ result' = [result EXCEPT ![2] =
                               IF jobsChanged(generateJobsHash(jobs), jobsHash)
                               THEN "changed" ELSE "unchanged"]
    /\ UNCHANGED << processVars, sinkVars, interrupted, origin, logVars, proc, budget,
                    previousJobs, storeVars, emailService, pc, newJobs, mail, failed,
                    wrote, lastScrape, prior, repeat, linkHistory, lossy >>

NextHash == HashStored \/ HashCompared \/ HashRescraped

SpecHash == InitHash /\ [][NextHash]_vars

\* --------------------------------------------- the fanout of one cycle
\* enhanced-scraper.js started once with any sink configuration that enables
\* at most MaxEnabledSinks of the promise-returning sinks; the console and
\* the log file need no credential.
FanoutConfigs ==
    { cfg \in [Sinks -> {"disabled", "unconfigured", "ready"}] :
        /\ cfg["console"] # "unconfigured"
        /\ cfg["fileLog"] # "unconfigured"
        /\ Cardinality({ s \in Range(PushOrder) : cfg[s] # "disabled" }) <= MaxEnabledSinks }

\* What the first scrape returns: one posting, or two.
FanoutListings ==
    { [ i \in 1..Len(s) |-> JobAt(s[i], Now) ] : s \in { << 1 >>, << 2, 1 >> } }

InitFanout ==
    /\ prog = "enhanced"
    /\ sinkConfig \in FanoutConfigs
    /\ proc = "down"
    /\ env \in Envs("enhanced")
    /\ budget = 1
    /\ currentJobs = PerCycle(None)
    /\ InitRest

\* The steps of the cycle that start() runs.
CycleFanout ==
    \/ Start
    \/ ScrapedIdentityFrom(1, FanoutListings)
    \/ \E s \in Sinks : SinkSettled(1, s)
    \/ NotifiedIdentity(1)
    \/ SavedIdentity(1)

NextFanout ==
    \/ CycleFanout
    \/ \E s \in Sinks : SinkHangs(1, s)
    \/ Sigint

SpecFanout == InitFanout /\ [][NextFanout]_vars

\* The event loop runs every continuation that is ready; nothing obliges a
\* request to hang or the operator to press Ctrl-C.
SpecFanoutLive == SpecFanout /\ WF_vars(CycleFanout)

\* ------------------------------------------ the worker and its requests
\* The worker with cron events and /trigger requests that may arrive while
\* a cycle is running: every invocation of checkForJobs is a cycle of its
\* own over the same KV namespace.
WorkerListings ==
    { [ i \in 1..Len(s) |-> JobAt(s[i], Now) ] : s \in { << 1 >>, << 2, 1 >> } }

InitWorker ==
    /\ prog = "worker"
    /\ overlapping = TRUE
    /\ sinkConfig \in SinkConfigs("worker")
    /\ proc = "running"
    /\ env \in Envs("worker")
    /\ budget = MaxHashCycles
    /\ currentJobs = PerCycle(None)
    /\ InitStores

NextWorker ==
    \/ \E c \in Cycles : Trigger(c)
    \/ \E c \in Cycles, who \in Requesters : Requested(c, who)
    \/ \E c \in Cycles : ScrapedHashFrom(c, WorkerListings)
    \/ \E c \in Cycles : LoadedHash(c)
    \/ \E c \in Cycles : Emailed(c)
    \/ \E c \in Cycles : SavedHash(c)
    \/ \E c \in Cycles : SavedJobs(c)
    \/ \E c \in Cycles : Logged(c)
    \/ \E c \in Cycles : LoggedError(c)

SpecWorker == InitWorker /\ [][NextWorker]_vars

\* --------------------------------------------------- the logs alone
\* The log writes of the content-hash programs, one after the other: budget
\* counts the writes that may still be tried. The worker starts with an
\* empty activity-logs value; the MailSlurp scraper starts with no log file
\* or with one that earlier runs have filled up to one entry below
\* FileLogLimit. Entries of earlier runs have timestamps up to 0.
LogWrites(p) == IF p = "worker" THEN MaxLogAppends ELSE MaxFileLogAppends

\* The clock of the log entries: it has advanced with every entry written.
LogNow == Len(appended) + 1

ExistingLogs(p) ==
    IF p = "worker"
    THEN { << >> }
    ELSE { [ i \in 1..n |-> Entry(i - n, "startup") ] : n \in {0, FileLogLimit - 1} }

InitLog ==
    /\ prog \in HashPrograms
    /\ sinkConfig \in SinkConfigs(prog)
    /\ proc = "running"
    /\ env \in [keywords : {ConfiguredKeywords}, emailEnabled : {FALSE},
                 receiver : {FALSE}, apiKey : {FALSE}]
    /\ budget = LogWrites(prog)
    /\ currentJobs = PerCycle(None)
    /\ activityLogs \in ExistingLogs(prog)
    /\ appended = activityLogs
    /\ overlapping = FALSE
    /\ previousJobs = << >>
    /\ prevFile = None
    /\ jobsHash = None
    /\ latestJobs = None
    /\ emailService = FALSE
    /\ pc = PerCycle("idle")
    /\ previousHash = PerCycle(None)
    /\ newJobs = PerCycle(<< >>)
    /\ result = PerCycle("none")
    /\ mail = PerCycle("none")
    /\ failed = PerCycle({})
    /\ calls = PerCycle([ s \in Sinks |-> NoCall ])
    /\ notifications = PerCycle(<< >>)
    /\ interrupted = "none"
    /\ origin = PerCycle("none")
    /\ wrote = PerCycle({})
    /\ lastScrape = None
    /\ prior = FALSE
    /\ repeat = PerCycle(FALSE)
    /\ notifiedOnce = {}
    /\ notifiedTwice = {}
    /\ observed = {}
    /\ missed = {}
    /\ lossy = FALSE

LogUnchanged ==
    UNCHANGED << processVars, sinkVars, interrupted, origin, proc, previousJobs,
                 storeVars, emailService, pc, cycleVars, lastScrape, prior,
                 linkHistory, lossy >>

\* The worker logs a processed cycle or an error: the get and the put of
\* activity-logs succeed, or one of them fails and nothing is written.
WorkerLogged ==
    /\ prog = "worker"
    /\ budget > 0
    /\ budget' = budget - 1
    /\ \E action \in {"jobs_found", "error"} :
          \/ /\ activityLogs' = logs(activityLogs, Entry(LogNow, action))
             /\ appended' = Append(appended, Entry(LogNow, action))
          \/ UNCHANGED logVars
    /\ LogUnchanged

\* logActivity of the MailSlurp scraper: the file is read (an unreadable
\* file counts as an empty log), the entry is pushed, the log is cut to
\* its last FileLogLimit entries and written; a failed write is swallowed.
FileLogged ==
    /\ prog = "mailslurp"
    /\ budget > 0
    /\ budget' = budget - 1
    /\ \E existingLogs \in { activityLogs, << >> } :
          \/ /\ activityLogs' = logActivity(existingLogs, Entry(LogNow, "check_completed"))
             /\ appended' = Append(appended, Entry(LogNow, "check_completed"))
          \/ UNCHANGED logVars
    /\ LogUnchanged

NextLog == WorkerLogged \/ FileLogged

SpecLog == InitLog /\ [][NextLog]_vars

\* ------------------------------------------------------- specifications
Next ==
    \/ Start
    \/ Sigint
    \/ \E c \in Cycles : Trigger(c)
    \/ \E c \in Cycles : ScrapedIdentity(c)
    \/ \E c \in Cycles, s \in Sinks : SinkSettled(c, s)
    \/ \E c \in Cycles, s \in Sinks : SinkHangs(c, s)
    \/ \E c \in Cycles : NotifiedIdentity(c)
    \/ \E c \in Cycles : SavedIdentity(c)
    \/ \E c \in Cycles : ScrapedHash(c)
    \/ \E c \in Cycles : LoadedHash(c)
    \/ \E c \in Cycles : Emailed(c)
    \/ \E c \in Cycles : SavedHash(c)
    \/ \E c \in Cycles : SavedJobs(c)
    \/ \E c \in Cycles : Logged(c)
    \/ \E c \in Cycles : LoggedError(c)

Programs == IdentityPrograms \cup HashPrograms

Init == \E p \in Programs : InitProgram(p)

Spec == Init /\ [][Next]_vars

\* ----------------------------------------------------------------- claims
\* The scrape of cycle c, once scrapeJobs has resolved.
ScrapeOf(c) == currentJobs[c][1]

HasScrape(c) == currentJobs[c] # None

\* C1: in the identity-set programs, the list handed to the notification step
\* of a cycle with a non-empty scrape is exactly the records of the scrape
\* whose link is not in previousJobs (as it was when the cycle compared), in
\* scrape order; once the notification has settled previousJobs holds the
\* links of the scrape.
C1_NotifiedAreTheUnseen ==
    \A c \in Cycles :
        (prog \in IdentityPrograms /\ HasScrape(c) /\ Len(ScrapeOf(c)) > 0) =>
            /\ "previousJobs" \notin wrote[c] =>
                  newJobs[c] = SelectSeq(ScrapeOf(c),
                                         LAMBDA job : job.link \notin Range(previousJobs))
            /\ (pc[c] = "notifying") = ("previousJobs" \notin wrote[c] /\ newJobs[c] # << >>)
            /\ result[c] = "changed" =>
                  /\ newJobs[c] # << >>
                  /\ Range(previousJobs) = Range(linksOf(ScrapeOf(c)))

\* previous = {A, B}, current = [A, B, C]: exactly [C] is handed over.
C1_Witness ==
    \E c \in Cycles :
        /\ prog \in IdentityPrograms
        /\ pc[c] = "notifying"
        /\ Range(previousJobs) = {1, 2}
        /\ linksOf(ScrapeOf(c)) = << 1, 2, 3 >>
        /\ linksOf(newJobs[c]) = << 3 >>

\* The links of the listing recorded before the cycle wrote latest-jobs.
RecordedLinks == IF latestJobs = None THEN {} ELSE Range(linksOf(latestJobs[1]))

\* The stored hash is the digest of the stored listing.
StoresAgree ==
    \/ jobsHash = None /\ latestJobs = None
    \/ jobsHash # None /\ latestJobs # None
          /\ jobsHash = Some(generateJobsHash(latestJobs[1]))

\* C2: in the content-hash programs an alert email is sent in a cycle only if
\* the scrape holds a keyword-matching job that was not part of the
\* previously recorded scrape. (Stated for a cycle in which nothing failed,
\* when the email has settled and the cycle has written nothing yet, over
\* stores that hold one and the same earlier scrape.)
C2_EmailOnlyForNewMatchingJobs ==
    \A c \in Cycles :
        (/\ prog \in HashPrograms
         /\ pc[c] = "saving_hash"
         /\ mail[c] = "sent"
         /\ failed[c] = {}
         /\ StoresAgree) =>
            \E i \in 1..Len(ScrapeOf(c)) :
                /\ matchesKeyword(ScrapeOf(c)[i], env.keywords[1])
                /\ ScrapeOf(c)[i].link \notin RecordedLinks

\* C3: in the identity-set programs, as long as no seen state and no cycle
\* was lost at a restart, a link that every successful non-empty scrape since
\* its first observation contained is handed to the notification step in at
\* most one cycle.
C3_NotifiedAtMostOnce ==
    (prog \in IdentityPrograms /\ ~lossy) =>
        notifiedTwice \cap (observed \ missed) = {}

\* Link 1 was in every scrape and was notified once; link 2 dropped out of a
\* scrape, came back and was notified again.
C3_Witness ==
    /\ prog \in IdentityPrograms
    /\ ~lossy
    /\ 1 \in notifiedOnce \ (notifiedTwice \cup missed)
    /\ 2 \in notifiedTwice \cap missed
    /\ budget = 0

\* The parts of the seen state: previousJobs, the stored hash, latest-jobs.
SeenParts == {"previousJobs", "jobsHash", "latestJobs"}

\* C4: for both strategies, when a cycle processed a non-empty scrape and the
\* seen state it left is the one in place, the next cycle that scrapes the
\* identical record list (and reads the stored state) is Unchanged: it hands
\* nothing to a notification step, sends no email and writes no part of the
\* seen state.
C4_IdenticalScrapeIsUnchanged ==
    \A c \in Cycles :
        (repeat[c] /\ "load_hash" \notin failed[c]) =>
            /\ newJobs[c] = << >>
            /\ mail[c] = "none"
            /\ wrote[c] \cap SeenParts = {}
            /\ pc[c] \in {"idle", "loading_hash", "saving"}
            /\ result[c] \in {"none", "unchanged"}
            /\ failed[c] = {}

\* A content-hash cycle returned Unchanged on the listing of the cycle
\* before it, which had been emailed.
C4_Witness ==
    \E c \in Cycles :
        /\ prog \in HashPrograms
        /\ repeat[c]
        /\ result[c] = "unchanged"
        /\ Len(ScrapeOf(c)) = 2
        /\ jobsHash = Some(generateJobsHash(ScrapeOf(c)))

\* C5: for every list of job records, links not assumed distinct, and every
\* reordering of it, generateJobsHash returns the same digest: the reordered
\* listing is compared as unchanged.
C5_ReorderedIsUnchanged ==
    (prog = "hash" /\ result[2] # "none") =>
        /\ generateJobsHash(currentJobs[2][1]) = generateJobsHash(currentJobs[1][1])
        /\ result[2] = "unchanged"

\* C6: when a scrape returns zero records, the cycle hands nothing to a
\* notification step, sends no email, and writes none of previousJobs, the
\* stored hash and latest-jobs.
C6_EmptyScrapeGuard ==
    \A c \in Cycles :
        (prog \in Programs /\ HasScrape(c) /\ ScrapeOf(c) = << >>) =>
            /\ newJobs[c] = << >>
            /\ mail[c] = "none"
            /\ wrote[c] \cap SeenParts = {}
            /\ pc[c] \in {"idle", "saving"}
            /\ result[c] \in {"empty", "unchanged"}

\* A content-hash cycle returned on an empty scrape over a stored listing.
C6_Witness ==
    \E c \in Cycles :
        /\ prog \in HashPrograms
        /\ HasScrape(c)
        /\ ScrapeOf(c) = << >>
        /\ result[c] = "empty"
        /\ jobsHash # None
        /\ latestJobs # None

\* Some keyword of the list occurs, compared case-insensitively, in text.
KeywordIn(text, keywords) ==
    \E k \in Range(keywords) : includes(toLowerCase(text), toLowerCase(k))

NoKeywords == env.keywords = None \/ env.keywords[1] = << >>

\* C7 as the code has it: a record is kept by the keyword filters if and only
\* if some configured keyword occurs, compared case-insensitively, as a
\* substring of the record's title and department joined by one space; with
\* an empty or absent keyword list every record is kept.
C7_KeptIffKeywordInTitleSpaceDepartment ==
    (prog = "filter" /\ result[1] # "none") =>
        /\ Range(newJobs[1]) \subseteq Range(ScrapeOf(1))
        /\ \A job \in Range(ScrapeOf(1)) :
              job \in Range(newJobs[1]) <=>
                  \/ NoKeywords
                  \/ KeywordIn(job.title \o << " " >> \o job.department, env.keywords[1])

\* C7 as claimed: the keyword is looked for in the concatenation of title and
\* department.
C7_KeptIffKeywordInConcatenation ==
    (prog = "filter" /\ result[1] # "none") =>
        /\ Range(newJobs[1]) \subseteq Range(ScrapeOf(1))
        /\ \A job \in Range(ScrapeOf(1)) :
              job \in Range(newJobs[1]) <=>
                  \/ NoKeywords
                  \/ KeywordIn(job.title \o job.department, env.keywords[1])

\* Keyword "A" over [a, b]: only the record titled "a" is kept.
C7_Witness ==
    /\ prog = "filter"
    /\ result[1] = "filterJobsByKeywords"
    /\ env.keywords = Some(<< << "A" >> >>)
    /\ Len(ScrapeOf(1)) = 2
    /\ ScrapeOf(1)[1].title = << "a" >>
    /\ ScrapeOf(1)[2].title = << "b" >>
    /\ ScrapeOf(1)[2].department = << "b" >>
    /\ newJobs[1] = << ScrapeOf(1)[1] >>

\* C8: in the identity-set programs, a step in which a cycle that found a new
\* link finishes its notification makes previousJobs exactly the set of
\* links of that cycle's scrape; no other step of a running process changes
\* previousJobs, so a cycle that found no new link leaves it as it was.
C8_FullReplacement ==
    [][ /\ \A c \in Cycles :
              (/\ prog \in IdentityPrograms
               /\ pc[c] = "notifying"
               /\ pc'[c] # "notifying"
               /\ proc' # "down") =>
                  /\ result'[c] = "changed"
                  /\ Range(previousJobs') = Range(linksOf(ScrapeOf(c)))
                  /\ Len(previousJobs') = Cardinality(Range(previousJobs'))
        /\ (prog \in IdentityPrograms /\ previousJobs' # previousJobs /\ proc # "down") =>
              \E c \in Cycles : pc[c] = "notifying" /\ result'[c] = "changed"
      ]_vars

\* The set was replaced by the links of a scrape that lacks link 2, which
\* the set held before: link 2 is no longer in it.
C8_Witness ==
    \E c \in Cycles :
        /\ prog \in IdentityPrograms
        /\ ~lossy
        /\ result[c] = "changed"
        /\ 2 \in notifiedOnce
        /\ 2 \notin Range(linksOf(ScrapeOf(c)))
        /\ 2 \notin Range(previousJobs)
        /\ Range(previousJobs) = {1, 3}

\* The digest of the scrape of cycle c, as an optional value.
DigestOf(c) == Some(generateJobsHash(ScrapeOf(c)))

\* C9: in the content-hash programs, a cycle whose digest equals the digest
\* it read from storage sends no email and writes neither the stored hash nor
\* latest-jobs; an email is sent, and a write is made, only in a cycle whose
\* digest differs from the digest it read.
C9_UnchangedDigestDoesNothing ==
    \A c \in Cycles :
        (prog \in HashPrograms /\ HasScrape(c) /\ Len(ScrapeOf(c)) > 0) =>
            /\ DigestOf(c) = previousHash[c] =>
                  /\ mail[c] = "none"
                  /\ newJobs[c] = << >>
                  /\ wrote[c] = {}
                  /\ pc[c] = "idle"
                  /\ result[c] = "unchanged"
            /\ (mail[c] # "none" \/ wrote[c] # {}
                    \/ pc[c] \in {"emailing", "saving_hash", "saving_jobs"}) =>
                  DigestOf(c) # previousHash[c]

\* An unchanged cycle: latest-jobs still carries the scraped_at of the
\* earlier scrape.
C9_Witness ==
    \E c \in Cycles :
        /\ prog \in HashPrograms
        /\ HasScrape(c)
        /\ result[c] = "unchanged"
        /\ previousHash[c] = DigestOf(c)
        /\ jobsHash = previousHash[c]
        /\ latestJobs # None
        /\ latestJobs[1] # ScrapeOf(c)
        /\ records(latestJobs[1]) = records(ScrapeOf(c))

\* C10: in the content-hash programs, a cycle whose digest differs from the
\* digest it read, and in which no read or write of the storage failed,
\* leaves the new digest as the stored hash: whether or not a record
\* matched, and whether or not the email service was configured, could be
\* constructed, or delivered.
C10_ChangedStoresNewDigest ==
    \A c \in Cycles :
        (/\ prog \in HashPrograms
         /\ HasScrape(c)
         /\ Len(ScrapeOf(c)) > 0
         /\ result[c] # "none"
         /\ failed[c] \subseteq {"constructor"}
         /\ DigestOf(c) # previousHash[c]) =>
            jobsHash = DigestOf(c)

\* ------------------------------------------------------------ the fanout
\* sendNotifications(newJobs) of cycle c has been called.
Notifying(c) == newJobs[c] # << >>

\* C11: whatever sinks are enabled and whichever of them fail, reject or
\* hang, every enabled sink has been called exactly once with the new-jobs
\* list of the cycle, and a step that settles the call of one sink leaves
\* the record of every other sink as it was.
C11_FanoutIsolation ==
    /\ [](\A c \in Cycles : \A s \in Sinks :
            (Notifying(c) /\ isEnabled(sinkConfig, s)) =>
                calls[c][s].payloads = << newJobs[c] >>)
    /\ [][\A c \in Cycles : \A s \in Sinks :
            (/\ pc[c] = "notifying"
             /\ pc'[c] = "notifying"
             /\ proc' = proc
             /\ calls'[c][s] # calls[c][s]) =>
                \A t \in Sinks \ {s} : calls'[c][t] = calls[c][t]]_vars

\* Three enabled sinks of which the second failed: the first and the third
\* were called with the new jobs and delivered them.
C11_Witness ==
    /\ prog = "enhanced"
    /\ notifications[1] = << "discord", "telegram", "webhook" >>
    /\ calls[1]["discord"].status = "delivered"
    /\ calls[1]["telegram"].status = "failed"
    /\ calls[1]["webhook"].status = "delivered"
    /\ \A s \in {"discord", "telegram", "webhook"} :
          calls[1][s].payloads = << newJobs[1] >>
    /\ result[1] = "changed"

\* C12: once sendNotifications has returned, the outcomes it collected have
\* one entry for each enabled promise-returning sink and none for a disabled
\* one, and an entry reports success exactly when that sink delivered the
\* notification (every enabled sink having its credentials).
C12_OutcomePerSinkTellsDelivery ==
    \A c \in Cycles :
        (/\ prog = "enhanced"
         /\ result[c] = "changed"
         /\ \A s \in Sinks : sinkConfig[s] # "unconfigured") =>
            LET outcomes == settledResults(calls[c], notifications[c])
            IN  /\ Len(outcomes) =
                       Cardinality({ s \in Range(PushOrder) : isEnabled(sinkConfig, s) })
                /\ \A i \in 1..Len(outcomes) :
                       (outcomes[i] = "fulfilled") <=>
                           (calls[c][notifications[c][i]].status = "delivered")

\* C13: a sink whose enabled flag is false is never called: it is handed no
\* job list, starts no I/O and, the console sink included, prints nothing.
C13_DisabledSinkIsNeverInvoked ==
    \A c \in Cycles : \A s \in Sinks :
        sinkConfig[s] = "disabled" => calls[c][s] = NoCall

\* A fanout that delivered to Discord with the console, the email sink and
\* the log file switched off.
C13_Witness ==
    /\ prog = "enhanced"
    /\ result[1] = "changed"
    /\ sinkConfig["discord"] = "ready"
    /\ calls[1]["discord"].status = "delivered"
    /\ \A s \in {"console", "email", "fileLog"} :
          sinkConfig[s] = "disabled" /\ calls[1][s] = NoCall

\* C14: the cycle leaves the notification step, other than by the process
\* exiting, only when the call of every enabled sink has settled: no call is
\* then waiting for its I/O, whatever became of the other calls.
C14_ReturnsAfterAllSettled ==
    [][\A c \in Cycles :
          (pc[c] = "notifying" /\ pc'[c] # "notifying" /\ proc' # "down") =>
              \A s \in Sinks :
                  isEnabled(sinkConfig, s) =>
                      calls[c][s].status \notin {"none", "pending", "hung"}]_vars

\* sendNotifications has returned after one promise rejected, one sink
\* caught its error and a third delivered.
C14_Witness ==
    /\ prog = "enhanced"
    /\ result[1] = "changed"
    /\ notifications[1] = << "discord", "telegram", "fileLog" >>
    /\ calls[1]["discord"].status = "rejected"
    /\ calls[1]["telegram"].status = "failed"
    /\ calls[1]["fileLog"].status = "delivered"

\* C15: when the request of one sink never completes, the cycle still gets
\* past the notification step and replaces previousJobs, unless the operator
\* stops the process first.
C15_HungSinkStillCompletes ==
    (\E s \in Sinks : calls[1][s].status = "hung")
        ~> ("previousJobs" \in wrote[1] \/ proc = "down")

\* C16: when SIGINT arrived while the sinks of a cycle were being notified,
\* the new jobs having been determined, and the handler's write succeeded,
\* the file holds the links of that cycle's scrape.
C16_ShutdownPersistsNewState ==
    (/\ prog = "enhanced"
     /\ proc = "down"
     /\ interrupted = "notifying"
     /\ lastScrape # None
     /\ prevFile # None) =>
        Range(prevFile[1]) = { lastScrape[1][i].link : i \in 1..Len(lastScrape[1]) }

\* ------------------------------------------------------------- errors
\* C17: a cycle in which nothing failed but reads or writes of the stored
\* state ends as a normal cycle does: a failed read of the hash is taken as
\* no stored hash and the cycle goes on as a changed one, a failed write is
\* swallowed, and the cycle returns as processed or as without a match.
C17_PersistenceErrorsAreSwallowed ==
    \A c \in Cycles :
        (/\ prog \in HashPrograms
         /\ failed[c] # {}
         /\ failed[c] \subseteq {"load_hash", "save_hash", "save_jobs"}
         /\ result[c] # "none") =>
            result[c] \in {"no_match", "processed"}

\* C18: a cycle whose scrape failed hands no job to any sink, sends no
\* email, writes none of previousJobs, the stored hash and latest-jobs, and
\* leaves the process running, so that the next trigger starts a cycle; the
\* step in which the scrape fails changes none of the three either.
C18_ScrapeErrorAbortsCycle ==
    /\ [](\A c \in Cycles :
            "scrape" \in failed[c] =>
                /\ newJobs[c] = << >>
                /\ mail[c] = "none"
                /\ \A s \in Sinks : calls[c][s] = NoCall
                /\ wrote[c] \cap SeenParts = {}
                /\ proc \in {"startup", "running"}
                /\ pc[c] \in {"idle", "saving", "logging_error"})
    /\ [][\A c \in Cycles :
            ("scrape" \notin failed[c] /\ "scrape" \in failed'[c]) =>
                UNCHANGED << previousJobs, jobsHash, latestJobs >>]_vars

\* A cycle whose scrape failed has returned while a seen state recorded by
\* an earlier cycle is in place.
C18_Witness ==
    \E c \in Cycles :
        /\ "scrape" \in failed[c]
        /\ result[c] \in {"scrape_failed", "error"}
        /\ pc[c] = "idle"
        /\ proc = "running"
        /\ IF prog \in IdentityPrograms THEN previousJobs # << >> ELSE jobsHash # None

\* C19: with the MailSlurp email sink enabled, a receiver set and the API key
\* missing, the process does not fail at start and no cycle fails when it
\* comes to send: the sink counts as disabled.
C19_MissingCredentialDisablesSink ==
    (/\ prog \in HashPrograms
     /\ env.emailEnabled
     /\ env.receiver
     /\ ~env.apiKey) =>
        /\ proc # "crashed"
        /\ \A c \in Cycles : "constructor" \notin failed[c]

\* C20: no cycle rejects and none takes the process down: a cycle in which
\* the scrape, a sink or the storage failed has returned once it is over,
\* the worker's with an object whose success field is a boolean.
C20_CycleNeverThrows ==
    /\ [](\A c \in Cycles :
            /\ result[c] # "rejected"
            /\ (prog = "worker" /\ result[c] # "none") => success(result[c]) \in BOOLEAN
            /\ (pc[c] = "idle" /\ failed[c] # {}) =>
                   result[c] \in {"scrape_failed", "no_match", "processed", "error"}
            /\ (/\ pc[c] = "idle"
                /\ \E s \in Sinks : calls[c][s].status \in {"failed", "refused", "rejected"}) =>
                   result[c] = "changed")
    /\ [][proc' = "crashed" => proc = "down"]_vars

\* A worker cycle in which the email could not be sent and the write of the
\* hash failed has resolved to { success: false }.
C20_Witness ==
    \E c \in Cycles :
        /\ prog = "worker"
        /\ pc[c] = "idle"
        /\ mail[c] = "failed"
        /\ "save_hash" \in failed[c]
        /\ result[c] = "error"
        /\ success(result[c]) = FALSE

\* ------------------------------------------------------------- restarts
\* C21: enhanced-scraper.js was stopped during its first run and started
\* again, previous-jobs.json was written and the start restored exactly its
\* content: the first cycle after the restart hands to the notification step
\* no link that was handed to it before and has been in every scrape since.
C21_NotifiedBeforeRestartNotAgain ==
    (/\ prog = "enhanced"
     /\ budget = MaxCycles - 2
     /\ proc = "startup"
     /\ pc[1] \in {"scraping", "notifying"}
     /\ prevFile # None
     /\ previousJobs = newSet(prevFile[1])) =>
        notifiedTwice \cap (observed \ missed) = {}

\* --------------------------------------------------------- frame effects
\* A step of a sink: a call of the fanout settles or hangs, or sendJobAlert
\* of the content-hash programs settles.
SinkStep ==
    \/ calls' # calls /\ pc' = pc /\ proc' = proc
    \/ \E c \in Cycles : pc[c] = "emailing" /\ pc'[c] = "saving_hash"

\* C22: the enabled sinks of a cycle are all handed the same list, the new
\* jobs of the cycle, and a step of a sink changes neither that list, nor the
\* scraped records, nor previousJobs, the stored hash or latest-jobs.
C22_SinksShareReadOnlyView ==
    /\ [](\A c \in Cycles : \A s, t \in Sinks :
            (calls[c][s] # NoCall /\ calls[c][t] # NoCall) =>
                /\ calls[c][s].payloads = calls[c][t].payloads
                /\ calls[c][s].payloads = << newJobs[c] >>)
    /\ [][SinkStep =>
            UNCHANGED << newJobs, currentJobs, previousJobs, jobsHash, latestJobs >>]_vars

\* Two new jobs were printed on the console and delivered to Discord from
\* the same list, and previousJobs was then replaced by the scrape's links.
C22_Witness ==
    \E c \in Cycles :
        /\ prog = "enhanced"
        /\ result[c] = "changed"
        /\ Len(newJobs[c]) = 2
        /\ calls[c]["console"] = [status |-> "printed", payloads |-> << newJobs[c] >>]
        /\ calls[c]["discord"] = [status |-> "delivered", payloads |-> << newJobs[c] >>]
        /\ previousJobs = updatedPreviousJobs(currentJobs[c][1])

\* ------------------------------------------------------- manual trigger
\* C23: a /trigger request of a requester other than the owner starts no
\* cycle: no slot runs for it, no email is sent for it and no KV key is
\* written for it.
C23_OnlyOwnerTriggers ==
    \A c \in Cycles :
        origin[c] \in Requesters \ {"owner"} =>
            /\ pc[c] = "idle"
            /\ result[c] = "none"
            /\ mail[c] = "none"
            /\ wrote[c] = {}

\* ---------------------------------------------------------- activity log
\* C24: the worker's activity-logs value never holds more than
\* WorkerLogLimit entries: it holds the entries written last, as many as
\* there are up to that limit, in the order they were written, which is the
\* order of their timestamps. The log file of the MailSlurp scraper never
\* holds more than FileLogLimit entries.
C24_LogIsBounded ==
    /\ prog = "worker" =>
          /\ Len(activityLogs) <= WorkerLogLimit
          /\ Len(activityLogs) <= Len(appended)
          /\ Len(appended) <= WorkerLogLimit => Len(activityLogs) = Len(appended)
          /\ Len(appended) > WorkerLogLimit => Len(activityLogs) = WorkerLogLimit
          /\ \A i \in 1..Len(activityLogs) :
                activityLogs[i] = appended[Len(appended) - Len(activityLogs) + i]
          /\ \A i, j \in 1..Len(activityLogs) :
                i < j => activityLogs[i].timestamp < activityLogs[j].timestamp
    /\ prog = "mailslurp" => Len(activityLogs) <= FileLogLimit

\* Twelve entries were written to the worker's log: it holds the last ten,
\* from the third on.
C24_Witness ==
    /\ prog = "worker"
    /\ Len(appended) = WorkerLogLimit + 2
    /\ Len(activityLogs) = WorkerLogLimit
    /\ activityLogs[1] = appended[3]
    /\ activityLogs[WorkerLogLimit] = appended[WorkerLogLimit + 2]

\* ------------------------------------------------------------ step order
\* The email of cycle c of a content-hash program is due: a record matched
\* and the email service is configured.
EmailDue(c) ==
    /\ newJobs[c] # << >>
    /\ IF prog = "worker" THEN env.emailEnabled /\ env.receiver ELSE emailService

\* C25: a cycle has written a part of the seen state only when its
\* notification step has settled: every call of the fanout has settled, the
\* email that was due was sent or has failed. And once that step has settled
\* the state is written whatever the outcome: the identity-set programs
\* replace previousJobs in the step in which the fanout returns, the
\* content-hash programs have written the hash and latest-jobs when the
\* cycle returns as processed, unless the write itself failed.
C25_PersistAfterNotify ==
    /\ [](\A c \in Cycles :
            /\ wrote[c] \cap SeenParts # {} =>
                  /\ \A s \in Sinks :
                        isEnabled(sinkConfig, s) /\ prog \in IdentityPrograms =>
                            calls[c][s].status \notin {"none", "pending", "hung"}
                  /\ mail[c] # "sending"
                  /\ (prog \in HashPrograms /\ EmailDue(c)) => mail[c] \in {"sent", "failed"}
            /\ (prog \in IdentityPrograms /\ result[c] = "changed") =>
                  "previousJobs" \in wrote[c]
            /\ (/\ prog \in HashPrograms
                /\ result[c] = "processed"
                /\ failed[c] \cap {"save_hash", "save_jobs"} = {}) =>
                  {"jobsHash", "latestJobs"} \subseteq wrote[c])
    /\ [][\A c \in Cycles :
            (/\ prog \in IdentityPrograms
             /\ pc[c] = "notifying"
             /\ pc'[c] # "notifying"
             /\ proc' # "down") =>
                /\ "previousJobs" \in wrote'[c]
                /\ Range(previousJobs') = Range(linksOf(currentJobs[c][1]))]_vars

\* The Discord call of a changed cycle failed: previousJobs was replaced all
\* the same, after the call had settled.
C25_Witness ==
    \E c \in Cycles :
        /\ prog = "enhanced"
        /\ result[c] = "changed"
        /\ calls[c]["discord"].status \in {"failed", "refused"}
        /\ "previousJobs" \in wrote[c]
        /\ Range(previousJobs) = Range(linksOf(currentJobs[c][1]))

\* ----------------------------------------------------------- interleaving
\* C26: a cycle started by cron and a cycle started by a /trigger request
\* are never both past their read of the stored hash and before the end of
\* their writes, so that the two never both send the email for the same
\* change, the same digest found against the same stored hash.
C26_NoInterleavedCycles ==
    \A c, d \in Cycles :
        (/\ c # d
         /\ origin[c] = "cron"
         /\ origin[d] \in Requesters
         /\ pc[c] \in {"emailing", "saving_hash", "saving_jobs", "logging"}
         /\ pc[d] \in {"emailing", "saving_hash", "saving_jobs", "logging"}
         /\ failed[c] = {}
         /\ failed[d] = {}) =>
            ~(/\ mail[c] # "none"
              /\ mail[d] # "none"
              /\ DigestOf(c) = DigestOf(d)
              /\ previousHash[c] = previousHash[d])

\* ------------------------------------------------------- the content hash
\* Two record lists agree, record by record, on title, link, department and
\* location.
SameContent(a, b) ==
    /\ Len(a) = Len(b)
    /\ \A i \in 1..Len(a) :
          /\ a[i].title = b[i].title
          /\ a[i].link = b[i].link
          /\ a[i].department = b[i].department
          /\ a[i].location = b[i].location

\* C27: two record lists that differ in nothing but scraped_at have the same
\* digest, and the later one is compared as unchanged.
C27_HashIgnoresScrapedAt ==
    (/\ prog = "hash"
     /\ result[2] # "none"
     /\ SameContent(currentJobs[1][1], currentJobs[2][1])) =>
        /\ generateJobsHash(currentJobs[2][1]) = generateJobsHash(currentJobs[1][1])
        /\ result[2] = "unchanged"

\* Two postings scraped again at a later time: the lists differ, in
\* scraped_at only, and the second scrape is unchanged.
C27_Witness ==
    /\ prog = "hash"
    /\ result[2] = "unchanged"
    /\ Len(currentJobs[1][1]) = 2
    /\ SameContent(currentJobs[1][1], currentJobs[2][1])
    /\ \A i \in 1..2 : currentJobs[2][1][i].scraped_at > currentJobs[1][1][i].scraped_at

\* ------------------------------------------------ identity-set coverage
\* checkForNewJobs of cycle c returns from a scrape that resolved with at
\* least one record: through the unchanged branch or after the notification.
CompletesCovered(c) ==
    /\ prog = "enhanced"
    /\ pc[c] \in {"scraping", "notifying"}
    /\ pc'[c] = "saving"
    /\ result'[c] \in {"changed", "unchanged"}
    /\ currentJobs'[c] # None
    /\ Len(currentJobs'[c][1]) > 0

\* C28: when a cycle of enhanced-scraper.js completes after a successful,
\* non-empty scrape, every link of that scrape is a member of previousJobs,
\* whether the cycle was changed or unchanged.
C28_ScrapedLinksAreCovered ==
    [][\A c \in Cycles :
          CompletesCovered(c) =>
              \A i \in 1..Len(currentJobs'[c][1]) :
                  has(previousJobs', currentJobs'[c][1][i].link)]_vars

\* A cycle after the first has returned changed from a scrape of two records,
\* both of whose links are now in previousJobs.
C28_Witness ==
    /\ prog = "enhanced"
    /\ prior
    /\ \E c \in Cycles :
          /\ result[c] = "changed"
          /\ pc[c] = "saving"
          /\ currentJobs[c] # None /\ Len(currentJobs[c][1]) > 1
          /\ \A i \in 1..Len(currentJobs[c][1]) :
                has(previousJobs, currentJobs[c][1][i].link)

\* ------------------------------------------------- worker KV consistency
\* C29: once every worker cycle has finished, a stored jobs-hash is the
\* digest of the stored latest-jobs whenever both keys are stored.
C29_HashMatchesLatestJobs ==
    (/\ prog = "worker"
     /\ \A c \in Cycles : pc[c] = "idle"
     /\ \E c \in Cycles : result[c] # "none"
     /\ jobsHash # None
     /\ latestJobs # None) =>
        jobsHash = Some(generateJobsHash(latestJobs[1]))

\* ------------------------------------------- the filter and the email
\* sub is a subsequence of s: its elements are elements of s at strictly
\* increasing positions.
IsSubsequence(sub, s) ==
    \E f \in [1..Len(sub) -> 1..Len(s)] :
        /\ \A i \in 1..Len(sub) : s[f[i]] = sub[i]
        /\ \A i, j \in 1..Len(sub) : i < j => f[i] < f[j]

\* C30: filterJobsByKeywords returns a subsequence of its input and leaves
\* the input as it was; filtering its result again with the same keywords
\* returns the same list; and the page sendJobAlert builds from the
\* detector's matching jobs lists exactly those jobs, in their order.
C30_FilterPreservesOrderAndIsIdempotent ==
    /\ []((prog = "filter" /\ result[1] = "filterJobsByKeywords") =>
            /\ IsSubsequence(newJobs[1], ScrapeOf(1))
            /\ filterJobsByKeywords(newJobs[1], env.keywords) = newJobs[1]
            /\ result[2] # "no_matching_jobs"
            /\ result[2] = "built" => newJobs[2] = newJobs[1])
    /\ [][prog = "filter" => currentJobs' = currentJobs]_vars

\* Keyword "b" keeps the second of two records, and the page built from the
\* kept list has that one record.
C30_Witness ==
    /\ prog = "filter"
    /\ result[1] = "filterJobsByKeywords"
    /\ result[2] = "built"
    /\ env.keywords = Some(<< << "b" >> >>)
    /\ Len(ScrapeOf(1)) = 2
    /\ newJobs[1] = << ScrapeOf(1)[2] >>
    /\ newJobs[2] = newJobs[1]

====
